---- MODULE Spec2Model ----
(***************************************************************************)
(* A model of data/text_data.py: the vocabulary VocabEntry and the corpus  *)
(* MonoTextData (loading, padding and the three batching methods).         *)
(*                                                                         *)
(* A line of the input file is modelled by the list of its whitespace      *)
(* tokens (the value of line.split()); a blank line is the empty list.     *)
(* A Python dict is a TLA+ function on the set of its keys.  An optional   *)
(* value is a sequence of length at most one: << >> is None, <<x>> is x.   *)
(* Indices stored by the program (index_arr, sort_idx, batch_ids) keep     *)
(* their 0-based values; TLA+ sequences are indexed from 1.                *)
(***************************************************************************)
EXTENDS Integers, Sequences, FiniteSets, TLC

\* Bounds of the model.
MaxLines == 2
MaxLineLen == 2
MaxBatch == 2

\* Tokens that occur in the modelled corpus files.
Words == {"a", "b"}
\* Tokens handed to the VocabEntry operations.
Reserved == {"<pad>", "<s>", "</s>", "<unk>"}
Tokens == Words \cup {"c"} \cup Reserved

None == << >>
Some(x) == <<x>>

\* ------------------------------------------------------------------------
\* Python helpers
\* ------------------------------------------------------------------------

\* Truth value of an optional integer, as `if max_length:` computes it.
Truthy(m) == m # None /\ m[1] # 0

\* dict.get(k, default)
Get(d, k, default) == IF k \in DOMAIN d THEN d[k] ELSE default

\* len(dict)
DictLen(d) == Cardinality(DOMAIN d)

\* {v: k for k, v in d.items()}
Invert(d) ==
  [i \in {d[k] : k \in DOMAIN d} |-> CHOOSE k \in DOMAIN d : d[k] = i]

EmptyDict == [k \in {} |-> 0]

Min(a, b) == IF a < b THEN a ELSE b

\* max() of a non-empty list of integers
MaxOf(s) == CHOOSE m \in {s[i] : i \in 1..Len(s)} : \A i \in 1..Len(s) : s[i] <= m

\* All sequences over S of length at most n.
SeqsUpTo(S, n) == UNION {[1..k -> S] : k \in 0..n}

\* All orderings (as lists) of the integers 0..n-1.
Perms(n) ==
  {p \in [1..n -> 0..(n - 1)] : \A i, j \in 1..n : p[i] = p[j] => i = j}

\* ------------------------------------------------------------------------
\* VocabEntry
\* ------------------------------------------------------------------------

\* The four reserved entries written by VocabEntry.__init__ and _read_corpus.
DefaultWord2id ==
  ("<pad>" :> 0) @@ ("<s>" :> 1) @@ ("</s>" :> 2) @@ ("<unk>" :> 3)

\* VocabEntry.__init__(word2id): an empty or missing mapping is falsy.
VocabEntryInit(word2id) ==
  LET w2i == IF DOMAIN word2id # {} THEN word2id ELSE DefaultWord2id
      unk == IF DOMAIN word2id # {} THEN word2id["<unk>"] ELSE 3
  IN  [kind |-> "VocabEntry", word2id |-> w2i, unk_id |-> unk,
       id2word_ |-> Invert(w2i)]

\* VocabEntry.__getitem__
VocabGetItem(v, word) == Get(v.word2id, word, v.unk_id)

\* VocabEntry.__contains__
VocabContains(v, word) == word \in DOMAIN v.word2id

\* VocabEntry.__len__
VocabLen(v) == DictLen(v.word2id)

\* VocabEntry.add.  For a new word the chained assignment stores
\* word2id[word] = len(self); the next statement subscripts the bound method
\* self.id2word, which raises TypeError, so id2word_ is never written and
\* nothing is returned.
VocabAdd(v, word) ==
  IF ~VocabContains(v, word)
  THEN [vocab |-> [v EXCEPT !.word2id = (word :> VocabLen(v)) @@ @],
        ret |-> None, raised |-> "TypeError"]
  ELSE [vocab |-> v, ret |-> Some(VocabGetItem(v, word)), raised |-> "none"]

\* VocabEntry.id2word
VocabId2word(v, wid) ==
  IF wid \in DOMAIN v.id2word_
  THEN [ret |-> Some(v.id2word_[wid]), raised |-> "none"]
  ELSE [ret |-> None, raised |-> "KeyError"]

\* ------------------------------------------------------------------------
\* MonoTextData._read_corpus
\* ------------------------------------------------------------------------

\* The defaultdict(lambda: len(vocab)) seeded with the reserved symbols.
DefaultDictInit == [kind |-> "defaultdict", word2id |-> DefaultWord2id]

\* vocab[word] read with .get(word, 3): a missing word is not inserted.
ResolveWithFallback(vocab, word) ==
  [vocab |-> vocab, id |-> Get(vocab.word2id, word, 3)]

\* vocab[word] inside the scan: defaultdict.__getitem__ inserts len(vocab)
\* for a missing key; VocabEntry.__getitem__ falls back to unk_id.
Resolve(vocab, word) ==
  IF vocab.kind = "VocabEntry"
  THEN [vocab |-> vocab, id |-> VocabGetItem(vocab, word)]
  ELSE IF word \in DOMAIN vocab.word2id
       THEN [vocab |-> vocab, id |-> vocab.word2id[word]]
       ELSE [vocab |-> [vocab EXCEPT
                          !.word2id = (word :> DictLen(vocab.word2id)) @@ @],
             id |-> DictLen(vocab.word2id)]

\* [vocab[word] for word in line.split()]
RECURSIVE ResolveLine(_, _, _)
ResolveLine(vocab, line, ids) ==
  IF line = << >> THEN [vocab |-> vocab, ids |-> ids]
  ELSE LET r == Resolve(vocab, Head(line))
       IN  ResolveLine(r.vocab, Tail(line), Append(ids, r.id))

\* One iteration of `for line in fin` on the loop state st.
ReadLineStep(st, line, maxlen) ==
  IF Len(line) < 1
  THEN [st EXCEPT !.dropped = @ + 1]
  ELSE IF Truthy(maxlen) /\ Len(line) > maxlen[1]
       THEN [st EXCEPT !.dropped = @ + 1]
       ELSE LET r == ResolveLine(st.vocab, line, << >>)
            IN  [st EXCEPT !.data = Append(@, r.ids), !.vocab = r.vocab]

\* The return statements of _read_corpus.
WrapVocab(vocab) ==
  IF vocab.kind = "VocabEntry" THEN vocab ELSE VocabEntryInit(vocab.word2id)

\* ------------------------------------------------------------------------
\* MonoTextData._to_tensor
\* ------------------------------------------------------------------------

\* sents_ts.permute(1, 0) of a rows x cols list of lists
Permute(m) ==
  [j \in 1..Len(m[1]) |-> [i \in 1..Len(m) |-> m[i][j]]]

\* Lines 116-136 with the cell test off by one (len(sent) > i + 1): the last
\* id of every sentence is replaced by the pad id.
PadRowsOffByOne(vocab, bd, batch_first) ==
  LET sents_len == [i \in 1..Len(bd) |-> Len(bd[i])]
      max_len == MaxOf(sents_len)
      batch_size == Len(sents_len)
      first == [j \in 1..batch_size |-> VocabGetItem(vocab, "<s>")]
      rows == [i \in 1..max_len |->
                 [j \in 1..batch_size |->
                    IF Len(bd[j]) > i THEN bd[j][i]
                    ELSE VocabGetItem(vocab, "<pad>")]]
      sents_new == <<first>> \o rows
  IN  [tensor |-> IF batch_first THEN Permute(sents_new) ELSE sents_new,
       sents_len |-> [i \in 1..Len(sents_len) |-> sents_len[i] + 1]]

\* Lines 116-136 reporting the lengths without the start symbol.
PadRowsNoStartInLength(vocab, bd, batch_first) ==
  LET sents_len == [i \in 1..Len(bd) |-> Len(bd[i])]
      max_len == MaxOf(sents_len)
      batch_size == Len(sents_len)
      first == [j \in 1..batch_size |-> VocabGetItem(vocab, "<s>")]
      rows == [i \in 1..max_len |->
                 [j \in 1..batch_size |->
                    IF Len(bd[j]) > i - 1 THEN bd[j][i]
                    ELSE VocabGetItem(vocab, "<pad>")]]
      sents_new == <<first>> \o rows
  IN  [tensor |-> IF batch_first THEN Permute(sents_new) ELSE sents_new,
       sents_len |-> sents_len]

\* Lines 116-136: the padded tensor and the reported lengths of the
\* end-terminated sentences bd.
PadRows(vocab, bd, batch_first) ==
  LET sents_len == [i \in 1..Len(bd) |-> Len(bd[i])]
      max_len == MaxOf(sents_len)
      batch_size == Len(sents_len)
      first == [j \in 1..batch_size |-> VocabGetItem(vocab, "<s>")]
      rows == [i \in 1..max_len |->
                 [j \in 1..batch_size |->
                    IF Len(bd[j]) > i - 1 THEN bd[j][i]
                    ELSE VocabGetItem(vocab, "<pad>")]]
      sents_new == <<first>> \o rows
  IN  [tensor |-> IF batch_first THEN Permute(sents_new) ELSE sents_new,
       sents_len |-> [i \in 1..Len(sents_len) |-> sents_len[i] + 1]]

\* _to_tensor appending the end id in place (sent.append(eos)): the
\* caller's lists, which are the lists of self.data, grow by one id.
ToTensorInPlace(vocab, batch_data, batch_first) ==
  LET bd == [i \in 1..Len(batch_data) |->
               Append(batch_data[i], VocabGetItem(vocab, "</s>"))]
  IN  IF Len(batch_data) = 0
      THEN [raised |-> "ValueError", tensor |-> << >>, sents_len |-> << >>,
            sents |-> batch_data]
      ELSE LET r == PadRows(vocab, bd, batch_first)
           IN  [raised |-> "none", tensor |-> r.tensor,
                sents_len |-> r.sents_len, sents |-> bd]

\* _to_tensor(batch_data, batch_first, device).  `sents` is the value of the
\* sentence objects passed in once the call is over: `sent + [eos]` builds
\* new lists, so the caller's lists are left as they were.  max() of an
\* empty list raises ValueError.
ToTensor(vocab, batch_data, batch_first) ==
  LET bd == [i \in 1..Len(batch_data) |->
               Append(batch_data[i], VocabGetItem(vocab, "</s>"))]
  IN  IF Len(batch_data) = 0
      THEN [raised |-> "ValueError", tensor |-> << >>, sents_len |-> << >>,
            sents |-> batch_data]
      ELSE LET r == PadRows(vocab, bd, batch_first)
           IN  [raised |-> "none", tensor |-> r.tensor,
                sents_len |-> r.sents_len, sents |-> batch_data]

\* ------------------------------------------------------------------------
\* Batches
\* ------------------------------------------------------------------------

\* batch_data.sort(key=lambda e: -len(e)) on the list of the sentences that
\* refs point to: a stable sort by descending length.
RECURSIVE SortByNegLen(_, _)
SortByNegLen(data, refs) ==
  IF refs = << >> THEN << >>
  ELSE LET s == SortByNegLen(data, SubSeq(refs, 1, Len(refs) - 1))
           x == refs[Len(refs)]
           k == Cardinality({i \in 1..Len(s) :
                               Len(data[s[i] + 1]) >= Len(data[x + 1])})
       IN  SubSeq(s, 1, k) \o <<x>> \o SubSeq(s, k + 1, Len(s))

\* The batch padded from the sentences data[refs[1]], data[refs[2]], ...
\* batch_ids is the slice of the index array the batch was taken from.
PadBatch(data, vocab, batch_ids, refs, batch_first) ==
  LET bd == [i \in 1..Len(refs) |-> data[refs[i] + 1]]
      out == ToTensor(vocab, bd, batch_first)
  IN  [batch_ids |-> batch_ids, refs |-> refs, batch_data |-> bd,
       raised |-> out.raised, tensor |-> out.tensor,
       sents_len |-> out.sents_len, sents |-> out.sents]

\* self.data once the batches are built: the lists the batches referred to
\* hold whatever _to_tensor left in them.
WriteBack(data, batches) ==
  [k \in 1..Len(data) |->
     IF \E b \in 1..Len(batches) : \E i \in 1..Len(batches[b].refs) :
          batches[b].refs[i] + 1 = k
     THEN LET b == CHOOSE b \in 1..Len(batches) :
                     \E i \in 1..Len(batches[b].refs) : batches[b].refs[i] + 1 = k
              i == CHOOSE i \in 1..Len(batches[b].refs) : batches[b].refs[i] + 1 = k
          IN  batches[b].sents[i]
     ELSE data[k]]

\* np.ceil of an integer
NpCeil(n) == n

\* batch_num = int(np.ceil(len(index_arr)) / float(batch_size))
BatchNum(n, batch_size) == NpCeil(n) \div batch_size

\* index_arr[lo : hi] (0-based, hi clipped to the length)
Slice(arr, lo, hi) == SubSeq(arr, lo + 1, Min(hi, Len(arr)))

\* data_iter, run to exhaustion, for the index array index_arr.
DataIterRun(data, vocab, index_arr, batch_size, batch_first) ==
  LET batch_num == BatchNum(Len(index_arr), batch_size)
      batches == [i \in 1..batch_num |->
                    LET batch_ids == Slice(index_arr, (i - 1) * batch_size,
                                           i * batch_size)
                    IN  PadBatch(data, vocab, batch_ids,
                                 SortByNegLen(data, batch_ids), batch_first)]
  IN  [raised |-> "none", ret |-> None, index_arr |-> index_arr,
       batches |-> batches, total |-> 0, data |-> WriteBack(data, batches)]

\* data_sample for the index array index_arr.
DataSampleRun(data, vocab, index_arr, nsample, batch_first) ==
  LET batch_ids == Slice(index_arr, 0, nsample)
      batch == PadBatch(data, vocab, batch_ids,
                        SortByNegLen(data, batch_ids), batch_first)
  IN  [raised |-> batch.raised, ret |-> None, index_arr |-> index_arr,
       batches |-> IF batch.raised = "none" THEN <<batch>> ELSE << >>,
       total |-> 0, data |-> WriteBack(data, <<batch>>)]

\* The results np.argsort may give for the lengths sents_len: the default
\* sort is not stable, so ties may come in any order.
ArgSorts(sents_len) ==
  {p \in Perms(Len(sents_len)) :
     \A i, j \in 1..Len(sents_len) :
        i < j => sents_len[p[i] + 1] <= sents_len[p[j] + 1]}

\* Lines 176-180: the positions where the sorted length changes, then the
\* number of sentences.
RECURSIVE ChangeLocFrom(_, _, _)
ChangeLocFrom(sort_len, i, acc) ==
  IF i >= Len(sort_len) THEN Append(acc, Len(sort_len))
  ELSE ChangeLocFrom(sort_len, i + 1,
                     IF sort_len[i + 1] # sort_len[i] THEN Append(acc, i)
                     ELSE acc)

ChangeLoc(sort_len) == ChangeLocFrom(sort_len, 1, << >>)

\* The loops of lines 184-191 with `next` not clipped to the change point.
RECURSIVE CdbLoopUnclipped(_, _, _, _, _)
CdbLoopUnclipped(change_loc, curr, batch_size, sort_idx, acc) ==
  IF change_loc = << >> THEN acc
  ELSE IF curr < Head(change_loc)
       THEN LET next == Min(curr + batch_size, Len(sort_idx))
            IN  CdbLoopUnclipped(change_loc, next, batch_size, sort_idx,
                                 Append(acc, Slice(sort_idx, curr, next)))
       ELSE CdbLoopUnclipped(Tail(change_loc), curr, batch_size, sort_idx, acc)

\* Lines 184-191: the index slices the nested loops cut, in order.
RECURSIVE CdbLoop(_, _, _, _, _)
CdbLoop(change_loc, curr, batch_size, sort_idx, acc) ==
  IF change_loc = << >> THEN acc
  ELSE IF curr < Head(change_loc)
       THEN LET next == Min(curr + batch_size, Head(change_loc))
            IN  CdbLoop(change_loc, next, batch_size, sort_idx,
                        Append(acc, Slice(sort_idx, curr, next)))
       ELSE CdbLoop(Tail(change_loc), curr, batch_size, sort_idx, acc)

\* sents_len == [sents_len[0]] * len(sents_len)
AllSame(s) == \A i \in 1..Len(s) : s[i] = s[1]

\* batch_data.size(0), summed over the first n batches
RECURSIVE TotalSize(_, _)
TotalSize(batches, n) ==
  IF n = 0 THEN 0 ELSE TotalSize(batches, n - 1) + Len(batches[n].tensor)

\* create_data_batch for the argsort result sort_idx.  The assertion of
\* line 196 stops the loop at the first batch with unequal lengths; the
\* assertion of line 198 compares the accumulated total with len(self.data).
CreateDataBatchRun(data, vocab, sort_idx, batch_size, batch_first) ==
  LET sents_len == [i \in 1..Len(data) |-> Len(data[i])]
      sort_len == [i \in 1..Len(data) |-> sents_len[sort_idx[i] + 1]]
      slices == CdbLoop(ChangeLoc(sort_len), 0, batch_size, sort_idx, << >>)
      all == [b \in 1..Len(slices) |->
                PadBatch(data, vocab, slices[b], slices[b], batch_first)]
      bad == {b \in 1..Len(all) : ~AllSame(all[b].sents_len)}
      n == IF bad = {} THEN Len(all)
           ELSE CHOOSE b \in bad : \A c \in bad : b <= c
      built == SubSeq(all, 1, n)
      total == TotalSize(built, n)
  IN  [raised |-> IF bad # {} \/ total # Len(data)
                  THEN "AssertionError" ELSE "none",
       ret |-> None, index_arr |-> sort_idx, batches |-> built,
       total |-> total, data |-> WriteBack(data, built)]

\* ------------------------------------------------------------------------
\* State
\* ------------------------------------------------------------------------

VARIABLES
  vocab,       \* the vocabulary: the defaultdict of the scan, or a VocabEntry
  data,        \* MonoTextData.data (during the scan: the local `data`)
  dropped,     \* MonoTextData.dropped (during the scan: the local `dropped`)
  fin,         \* the lines of the open file not read yet
  max_length,  \* the max_length argument of the running _read_corpus
  vocab_arg,   \* which vocab argument the corpus was constructed with
  pc,          \* "reading": inside _read_corpus; "ready": constructed;
               \* "returned": a batching method has handed back its result
  call,        \* the latest call: method name and arguments
  result       \* what that call produced

vars == <<vocab, data, dropped, fin, max_length, vocab_arg, pc, call, result>>

NoCall == [name |-> "none", n |-> 0, batch_first |-> FALSE, shuffle |-> FALSE,
           word |-> ""]

NoResult == [raised |-> "none", ret |-> None, index_arr |-> << >>,
             batches |-> << >>, total |-> 0]

\* The result record kept in the state (the `data` field of a run is the
\* new value of self.data).
ResultOf(r) == [raised |-> r.raised, ret |-> r.ret, index_arr |-> r.index_arr,
                batches |-> r.batches, total |-> r.total]

\* The lines a file may hold, and the files.
Lines == SeqsUpTo(Words, MaxLineLen)
Files == SeqsUpTo(Lines, MaxLines)

\* max_length: None or a number.
MaxLengths == {None} \cup {Some(n) : n \in 0..MaxLineLen}

\* A supplied mapping that knows the word "a".
CustomWord2id == ("a" :> 4) @@ DefaultWord2id

\* The vocab argument of MonoTextData: none, or a VocabEntry holding the
\* reserved symbols only.
VocabArgs == {"None", "VocabEntry()"}

\* Line 70-75: the vocabulary the scan starts from.
ScanVocab(arg) ==
  IF arg = "None" THEN DefaultDictInit ELSE VocabEntryInit(EmptyDict)

\* ------------------------------------------------------------------------
\* MonoTextData.__init__ / _read_corpus, one line at a time
\* ------------------------------------------------------------------------

InitRead ==
  /\ pc = "reading"
  /\ fin \in Files
  /\ max_length \in MaxLengths
  /\ vocab_arg \in VocabArgs
  /\ vocab = ScanVocab(vocab_arg)
  /\ data = << >>
  /\ dropped = 0
  /\ call = NoCall
  /\ result = NoResult

ReadLine ==
  /\ pc = "reading"
  /\ fin # << >>
  /\ LET st == ReadLineStep([data |-> data, dropped |-> dropped,
                             vocab |-> vocab], Head(fin), max_length)
     IN  /\ data' = st.data
         /\ dropped' = st.dropped
         /\ vocab' = st.vocab
  /\ fin' = Tail(fin)
  /\ UNCHANGED <<max_length, vocab_arg, pc, call, result>>

\* End of file: _read_corpus returns and __init__ stores the three values.
\* max_length is a parameter of _read_corpus and ends with the call.
Finish ==
  /\ pc = "reading"
  /\ fin = << >>
  /\ vocab' = WrapVocab(vocab)
  /\ pc' = "ready"
  /\ max_length' = None
  /\ UNCHANGED <<data, dropped, fin, vocab_arg, call, result>>

\* ------------------------------------------------------------------------
\* The batching methods
\* ------------------------------------------------------------------------

\* np.arange(len(self.data)), shuffled in place when shuffle is set.
IndexArrs(n, shuffle) ==
  IF shuffle THEN Perms(n) ELSE {[i \in 1..n |-> i - 1]}

Returns(name, n, batch_first, shuffle, r) ==
  /\ call' = [name |-> name, n |-> n, batch_first |-> batch_first,
              shuffle |-> shuffle, word |-> ""]
  /\ result' = ResultOf(r)
  /\ data' = r.data
  /\ pc' = "returned"
  /\ UNCHANGED <<vocab, dropped, fin, max_length, vocab_arg>>

DataIter ==
  /\ pc = "ready"
  /\ \E batch_size \in 1..MaxBatch, batch_first \in BOOLEAN, shuffle \in BOOLEAN :
       \E index_arr \in IndexArrs(Len(data), shuffle) :
          Returns("data_iter", batch_size, batch_first, shuffle,
                  DataIterRun(data, vocab, index_arr, batch_size, batch_first))

CreateDataBatch ==
  /\ pc = "ready"
  /\ \E batch_size \in 1..MaxBatch, batch_first \in BOOLEAN :
       \E sort_idx \in ArgSorts([i \in 1..Len(data) |-> Len(data[i])]) :
          Returns("create_data_batch", batch_size, batch_first, FALSE,
                  CreateDataBatchRun(data, vocab, sort_idx, batch_size,
                                     batch_first))

DataSample ==
  /\ pc = "ready"
  /\ \E nsample \in 1..MaxBatch, batch_first \in BOOLEAN, shuffle \in BOOLEAN :
       \E index_arr \in IndexArrs(Len(data), shuffle) :
          Returns("data_sample", nsample, batch_first, shuffle,
                  DataSampleRun(data, vocab, index_arr, nsample, batch_first))

\* The caller is done with the batches it was handed and may call again.
Release ==
  /\ pc = "returned"
  /\ pc' = "ready"
  /\ call' = NoCall
  /\ result' = NoResult
  /\ UNCHANGED <<vocab, data, dropped, fin, max_length, vocab_arg>>

NextRead == ReadLine \/ Finish

Next == ReadLine \/ Finish \/ DataIter \/ CreateDataBatch \/ DataSample \/ Release

\* Loading a corpus, then any sequence of batching calls.
Spec == InitRead /\ [][Next]_vars

\* Loading alone.
SpecRead == InitRead /\ [][NextRead]_vars

\* The corpus of the end-to-end scenario: "a b", an empty line, "a b c d e".
E2EFile == << <<"a", "b">>, << >>, <<"a", "b", "c", "d", "e">> >>

InitE2E ==
  /\ pc = "reading"
  /\ fin = E2EFile
  /\ max_length \in {None} \cup {Some(n) : n \in 0..Len(E2EFile[3])}
  /\ vocab_arg \in VocabArgs
  /\ vocab = ScanVocab(vocab_arg)
  /\ data = << >>
  /\ dropped = 0
  /\ call = NoCall
  /\ result = NoResult

\* The scenario file loaded under every max_length and vocabulary, then
\* batched.
SpecE2E == InitE2E /\ [][Next]_vars

\* ------------------------------------------------------------------------
\* A VocabEntry on its own
\* ------------------------------------------------------------------------

InitVocab ==
  /\ pc = "vocab"
  /\ vocab \in {VocabEntryInit(EmptyDict), VocabEntryInit(CustomWord2id)}
  /\ fin = << >>
  /\ max_length = None
  /\ vocab_arg = "None"
  /\ data = << >>
  /\ dropped = 0
  /\ call = NoCall
  /\ result = NoResult

VocabReturns(name, n, word, v, ret, raised) ==
  /\ call' = [name |-> name, n |-> n, batch_first |-> FALSE,
              shuffle |-> FALSE, word |-> word]
  /\ result' = [raised |-> raised, ret |-> ret, index_arr |-> << >>,
                batches |-> << >>, total |-> 0]
  /\ vocab' = v
  /\ UNCHANGED <<data, dropped, fin, max_length, vocab_arg, pc>>

Add ==
  /\ pc = "vocab"
  /\ \E word \in Tokens :
       LET r == VocabAdd(vocab, word)
       IN  VocabReturns("add", 0, word, r.vocab, r.ret, r.raised)

GetItem ==
  /\ pc = "vocab"
  /\ \E word \in Tokens :
       VocabReturns("__getitem__", 0, word, vocab,
                    Some(VocabGetItem(vocab, word)), "none")

Contains ==
  /\ pc = "vocab"
  /\ \E word \in Tokens :
       VocabReturns("__contains__", 0, word, vocab,
                    Some(VocabContains(vocab, word)), "none")

LenCall ==
  /\ pc = "vocab"
  /\ VocabReturns("__len__", 0, "", vocab, Some(VocabLen(vocab)), "none")

Id2word ==
  /\ pc = "vocab"
  /\ \E wid \in 0..VocabLen(vocab) :
       LET r == VocabId2word(vocab, wid)
       IN  VocabReturns("id2word", wid, "", vocab, r.ret, r.raised)

NextVocab == Add \/ GetItem \/ Contains \/ LenCall \/ Id2word

SpecVocab == InitVocab /\ [][NextVocab]_vars

\* ------------------------------------------------------------------------
\* Properties
\* ------------------------------------------------------------------------

\* ceil(n / d) for n >= 0, d >= 1
CeilDiv(n, d) == (n + d - 1) \div d

\* How many sentences the batches hold.
RECURSIVE SeqCount(_, _)
SeqCount(batches, n) ==
  IF n = 0 THEN 0 ELSE SeqCount(batches, n - 1) + Len(batches[n].batch_data)

\* How often the index idx occurs in the batches' index slices.
Occurrences(batches, idx) ==
  Cardinality({<<b, i>> \in (1..Len(batches)) \X (1..(MaxLines + MaxBatch + 1)) :
                 i <= Len(batches[b].batch_ids)
                 /\ batches[b].batch_ids[i] = idx})

DataIterReturned == pc = "returned" /\ call.name = "data_iter"
CdbReturned == pc = "returned" /\ call.name = "create_data_batch"

\* C1: data_iter yields exactly ceil(N / batch_size) batches, each of at
\* most batch_size sentences, which together hold every sentence index of
\* the corpus exactly once.
C1_DataIterCoversCorpus ==
  DataIterReturned =>
    /\ Len(result.batches) = CeilDiv(Len(data), call.n)
    /\ \A b \in 1..Len(result.batches) :
         Len(result.batches[b].batch_ids) \in 1..call.n
    /\ \A idx \in 0..(Len(data) - 1) : Occurrences(result.batches, idx) = 1

\* C2: create_data_batch runs to completion: no assertion fails, the total
\* it accumulates equals len(data), and the batches hold len(data) sentences.
C2_CreateDataBatchTotal ==
  CdbReturned =>
    /\ result.raised = "none"
    /\ result.total = Len(data)
    /\ SeqCount(result.batches, Len(result.batches)) = Len(data)

\* C3: every batch create_data_batch forms is non-empty, holds at most
\* batch_size sentences, all of one token count, so the lengths the padding
\* reports for it are all equal and the assertion on them never fails (every
\* slice the loops cut reaches the list of batches); the batches come in
\* ascending order of sentence length.
C3_FixedLengthBatches ==
  CdbReturned =>
    /\ SeqCount(result.batches, Len(result.batches)) = Len(data)
    /\ \A b \in 1..Len(result.batches) :
         LET batch == result.batches[b]
         IN  /\ Len(batch.batch_data) \in 1..call.n
             /\ \A i, j \in 1..Len(batch.batch_data) :
                  Len(batch.batch_data[i]) = Len(batch.batch_data[j])
             /\ Len(batch.sents_len) = Len(batch.batch_data)
             /\ \A i \in 1..Len(batch.sents_len) :
                  batch.sents_len[i] = batch.sents_len[1]
    /\ \A b, c \in 1..Len(result.batches) :
         b < c => Len(result.batches[b].batch_data[1])
                    <= Len(result.batches[c].batch_data[1])

\* C3 witness: two sentences of one length were cut into two batches of one.
C3_Witness ==
  /\ CdbReturned
  /\ call.n = 1
  /\ Len(result.batches) = 2
  /\ result.batches[1].sents_len = result.batches[2].sents_len

\* C4: add(token) of a token not yet known returns normally with the size
\* before the call as id, after which the token maps to that id and the id
\* maps back to the token; add of a known token returns its id and changes
\* nothing.
C4_AddAssignsNextId ==
  [][(call'.name = "add") =>
       IF ~VocabContains(vocab, call'.word)
       THEN /\ result'.raised = "none"
            /\ result'.ret = Some(VocabLen(vocab))
            /\ VocabContains(vocab', call'.word)
            /\ vocab'.word2id[call'.word] = VocabLen(vocab)
            /\ VocabLen(vocab) \in DOMAIN vocab'.id2word_
            /\ vocab'.id2word_[VocabLen(vocab)] = call'.word
       ELSE /\ result'.raised = "none"
            /\ result'.ret = Some(vocab.word2id[call'.word])
            /\ vocab' = vocab]_vars

\* C5 (state part): id2word_ is the exact inverse of word2id, the ids are
\* exactly 0..len(vocab)-1, the reserved ids are pad=0, start=1, end=2,
\* unknown=3, and a lookup of an unknown token gives the unknown id.
C5_InverseState ==
  pc = "vocab" =>
    /\ \A t \in DOMAIN vocab.word2id :
         /\ vocab.word2id[t] \in DOMAIN vocab.id2word_
         /\ vocab.id2word_[vocab.word2id[t]] = t
    /\ DOMAIN vocab.id2word_ = 0..(VocabLen(vocab) - 1)
    /\ {vocab.word2id[t] : t \in DOMAIN vocab.word2id} = 0..(VocabLen(vocab) - 1)
    /\ vocab.word2id["<pad>"] = 0 /\ vocab.word2id["<s>"] = 1
    /\ vocab.word2id["</s>"] = 2 /\ vocab.word2id["<unk>"] = 3
    /\ vocab.unk_id = 3
    /\ (call.name = "__getitem__" /\ ~VocabContains(vocab, call.word))
         => result.ret = Some(3)

\* C5: in every state reachable by add, lookup, contains and size calls the
\* state part holds, and the vocabulary never shrinks.
C5_VocabularyInverse ==
  /\ []C5_InverseState
  /\ [][pc = "vocab" =>
          \A t \in DOMAIN vocab.word2id :
             VocabContains(vocab', t) /\ vocab'.word2id[t] = vocab.word2id[t]]_vars

\* A step of the scan that consumes the line Head(fin).
ReadStep == pc = "reading" /\ fin # << >> /\ fin' = Tail(fin)

\* The lines the documented rule drops: no token, or max_length given (not
\* None) and more tokens than max_length.
DocumentedDrop(line, m) == Len(line) = 0 \/ (m # None /\ Len(line) > m[1])

\* C6: a line is dropped (dropped incremented, nothing appended) exactly when
\* it has no token or max_length is given and exceeded; every other line is
\* appended, in file order, as one sequence of as many ids as it has tokens;
\* so dropped + len(data) counts the lines read and, with max_length given,
\* no stored sequence is longer than max_length.
C6_DropRule ==
  /\ [][ReadStep =>
          /\ IF DocumentedDrop(Head(fin), max_length)
             THEN dropped' = dropped + 1 /\ data' = data
             ELSE /\ dropped' = dropped
                  /\ Len(data') = Len(data) + 1
                  /\ SubSeq(data', 1, Len(data)) = data
                  /\ Len(data'[Len(data')]) = Len(Head(fin))
          /\ dropped' + Len(data') + Len(fin') = dropped + Len(data) + Len(fin)]_vars
  /\ [](pc = "reading" /\ max_length # None =>
          \A i \in 1..Len(data) : Len(data[i]) <= max_length[1])

\* The tokens of a line.
TokensOf(line) == {line[i] : i \in 1..Len(line)}

\* Where a token first stands in a line.
FirstPos(line, w) ==
  CHOOSE i \in 1..Len(line) : line[i] = w /\ \A j \in 1..(i - 1) : line[j] # w

\* The mapping new extends old by the novel tokens of line, numbered from
\* the old size in the order they first stand in the line.
AssignsInOrder(old, new, line) ==
  /\ DOMAIN new = DOMAIN old \cup TokensOf(line)
  /\ \A w \in DOMAIN old : new[w] = old[w]
  /\ \A w \in TokensOf(line) \ DOMAIN old :
       new[w] = DictLen(old)
                + Cardinality({u \in TokensOf(line) \ DOMAIN old :
                                 FirstPos(line, u) < FirstPos(line, w)})

\* C10 (state part): without a supplied vocabulary the reserved symbols sit
\* at ids 0..3, distinct tokens have distinct ids, the ids are exactly
\* 0..size-1, and every id stored in data is an id of the vocabulary.
C10_ScanVocabState ==
  (vocab_arg = "None" /\ pc \in {"reading", "ready"}) =>
    /\ vocab.word2id["<pad>"] = 0 /\ vocab.word2id["<s>"] = 1
    /\ vocab.word2id["</s>"] = 2 /\ vocab.word2id["<unk>"] = 3
    /\ {vocab.word2id[t] : t \in DOMAIN vocab.word2id}
         = 0..(DictLen(vocab.word2id) - 1)
    /\ \A i \in 1..Len(data) : \A j \in 1..Len(data[i]) :
         data[i][j] \in {vocab.word2id[t] : t \in DOMAIN vocab.word2id}
    /\ pc = "ready" => vocab.id2word_ = Invert(vocab.word2id)

\* C10 as stated: every novel token seen while scanning the file receives the
\* next unused id, in the order the tokens are first seen in the file.
C10_EveryTokenSeenGetsId ==
  /\ []C10_ScanVocabState
  /\ [][(ReadStep /\ vocab_arg = "None") =>
          AssignsInOrder(vocab.word2id, vocab'.word2id, Head(fin))]_vars

\* C10 amended: the novel tokens of the lines that are not dropped receive
\* the next unused ids, in the order they are first seen in those lines; a
\* dropped line assigns nothing; each token of a stored line is stored as
\* its own id, never as a fallback.
C10_AcceptedTokensGetIds ==
  /\ []C10_ScanVocabState
  /\ [][(ReadStep /\ vocab_arg = "None") =>
          IF dropped' = dropped + 1
          THEN vocab' = vocab /\ data' = data
          ELSE /\ AssignsInOrder(vocab.word2id, vocab'.word2id, Head(fin))
               /\ data' = Append(data, [i \in 1..Len(Head(fin)) |->
                                          vocab'.word2id[Head(fin)[i]]])]_vars

\* C10 witness: of two lines read under max_length 1 one was dropped and the
\* other stored, its token "b" numbered 4 while "a" has no id.
C10_Witness ==
  /\ pc = "reading" /\ vocab_arg = "None"
  /\ max_length = Some(1)
  /\ dropped = 1 /\ fin = << >>
  /\ data = << <<4>> >>
  /\ DOMAIN vocab.word2id = Reserved \cup {"b"}
  /\ vocab.word2id["b"] = 4

\* The id the padded column of sentence sent holds in row r (rows from 0):
\* the start id, the tokens, the end id, then the pad id.
Cell(v, sent, r) ==
  IF r = 0 THEN VocabGetItem(v, "<s>")
  ELSE IF r <= Len(sent) THEN sent[r]
  ELSE IF r = Len(sent) + 1 THEN VocabGetItem(v, "</s>")
  ELSE VocabGetItem(v, "<pad>")

\* The longest token count of a batch of sentences.
Longest(bd) == MaxOf([i \in 1..Len(bd) |-> Len(bd[i])])

\* C7: for a non-empty batch and L = (longest token count) + 1 the result of
\* _to_tensor with batch_first=False has L+1 rows and batch_size columns,
\* column i holding the start id, the tokens of sentence i, the end id and
\* then pad ids; the reported length of a sentence of n tokens is n+2, so
\* row lengths[i]-1 holds the end id; with batch_first=True the result is
\* the transpose.
C7_PaddedTensor ==
  pc = "returned" =>
    \A b \in 1..Len(result.batches) :
      LET batch == result.batches[b]
          bd == batch.batch_data
          L == Longest(bd) + 1
      IN  /\ Len(bd) >= 1
          /\ Len(batch.sents_len) = Len(bd)
          /\ \A i \in 1..Len(bd) :
               /\ batch.sents_len[i] = Len(bd[i]) + 2
               /\ Cell(vocab, bd[i], batch.sents_len[i] - 1)
                    = VocabGetItem(vocab, "</s>")
          /\ IF call.batch_first
             THEN /\ Len(batch.tensor) = Len(bd)
                  /\ \A i \in 1..Len(bd) :
                       /\ Len(batch.tensor[i]) = L + 1
                       /\ \A r \in 0..L :
                            batch.tensor[i][r + 1] = Cell(vocab, bd[i], r)
             ELSE /\ Len(batch.tensor) = L + 1
                  /\ \A r \in 0..L :
                       /\ Len(batch.tensor[r + 1]) = Len(bd)
                       /\ \A i \in 1..Len(bd) :
                            batch.tensor[r + 1][i] = Cell(vocab, bd[i], r)

\* C7 witness: a time-major batch of two sentences of different lengths, the
\* shorter one padded.
C7_Witness ==
  /\ pc = "returned" /\ ~call.batch_first
  /\ Len(result.batches) = 1
  /\ Len(result.batches[1].batch_data) = 2
  /\ Len(result.batches[1].batch_data[1]) = 2
  /\ Len(result.batches[1].batch_data[2]) = 1
  /\ result.batches[1].tensor[4][2] = 0

\* C7 witness for the transposed form.
C7_WitnessBatchFirst ==
  /\ pc = "returned" /\ call.batch_first
  /\ Len(result.batches) = 1
  /\ Len(result.batches[1].batch_data) = 2
  /\ Len(result.batches[1].tensor) = 2
  /\ Len(result.batches[1].tensor[1]) = 4

\* The corpus the scenario leaves: one sentence, the ids of "a" and "b".
E2ECorpus ==
  /\ vocab_arg = "None"
  /\ dropped = 2
  /\ data = << <<4, 5>> >>

\* A batch of size 1 built from the corpus, not batch_first.
E2EBatchBuilt ==
  /\ pc = "returned" /\ E2ECorpus
  /\ call.n = 1 /\ ~call.batch_first
  /\ Len(result.batches) = 1

\* The scenario up to the reported length: max_length=3 and no vocabulary
\* drop lines 2 and 3 and leave [id(a), id(b)]; the batch has shape (4, 1)
\* with rows start, id(a), id(b), end.
E2ELoadAndShape ==
  /\ (pc = "reading" /\ fin = << >> /\ max_length = Some(3)
      /\ vocab_arg = "None")
       => /\ E2ECorpus
          /\ vocab.word2id["a"] = 4 /\ vocab.word2id["b"] = 5
          /\ ToTensor(WrapVocab(vocab), data, FALSE).tensor
               = << <<1>>, <<4>>, <<5>>, <<2>> >>
  /\ E2EBatchBuilt
       => /\ Len(result.batches[1].tensor) = 4
          /\ \A r \in 1..4 : Len(result.batches[1].tensor[r]) = 1
          /\ result.batches[1].tensor = << <<1>>, <<4>>, <<5>>, <<2>> >>

\* C8 as stated: ... and the reported length of the batch is 3.
C8_ReportedLengthThree ==
  /\ E2ELoadAndShape
  /\ E2EBatchBuilt => result.batches[1].sents_len = <<3>>

\* C8 amended: ... and the reported length of the batch is 4 (two tokens,
\* the start symbol and the end symbol).
C8_ReportedLengthFour ==
  /\ E2ELoadAndShape
  /\ E2EBatchBuilt => result.batches[1].sents_len = <<4>>

\* C8 witness: the batch of the scenario has been built.
C8_Witness ==
  /\ E2EBatchBuilt
  /\ call.name = "create_data_batch"
  /\ result.batches[1].tensor = << <<1>>, <<4>>, <<5>>, <<2>> >>

\* What a create_data_batch run yields: the number of batches, the lengths
\* reported per batch, and the number of sentences in them.
Summary(r) ==
  [n |-> Len(r.batches),
   lens |-> [b \in 1..Len(r.batches) |-> r.batches[b].sents_len],
   count |-> SeqCount(r.batches, Len(r.batches))]

\* C9: data_iter, create_data_batch and data_sample leave data, vocab and
\* dropped as they were; so create_data_batch called again with the same
\* batch_size yields as many batches, with the same lengths per batch and
\* the same number of sentences, as the call that has just returned.
C9_BatchingLeavesCorpus ==
  /\ [][(pc = "ready" /\ pc' = "returned") =>
          (data' = data /\ vocab' = vocab /\ dropped' = dropped)]_vars
  /\ [](CdbReturned =>
          \A batch_first \in BOOLEAN :
            \A sort_idx \in ArgSorts([i \in 1..Len(data) |-> Len(data[i])]) :
               Summary(CreateDataBatchRun(data, vocab, sort_idx, call.n,
                                          batch_first))
                 = Summary(result))

\* C9 witness: data_iter has sorted a batch by length (the batch is not in
\* index order) and the stored sentences are still in file order.
C9_Witness ==
  /\ DataIterReturned
  /\ Len(result.batches) = 1
  /\ result.batches[1].batch_ids = <<0, 1>>
  /\ result.batches[1].refs = <<1, 0>>
  /\ Len(data[1]) = 1 /\ Len(data[2]) = 2

====
